---- MODULE Spec2Model ----
(***************************************************************************)
(* Chat client of the DN clan application (src/src/App.tsx, first variant, *)
(* lines 1-285; the second variant, lines 287-550, and src/unnamed/part_000*)
(* share the feed subscription, sendMsg and the delete gate).              *)
(*                                                                         *)
(* Two browser clients run the React component tree App > ChatView against *)
(* one realtime database holding the collections messages/ and users/.     *)
(* The database and the auth provider are external: the model keeps only   *)
(* what the client code relies on (push keys, server timestamps, the       *)
(* limitToLast window, value events carrying the whole window).            *)
(*                                                                         *)
(* The transport as modelled: push() takes its key from the client at the  *)
(* call and its createdAt from the server at the commit; the writes of one *)
(* client are answered in the order issued, those of different clients in  *)
(* any order; a value event hands the listener the window of the           *)
(* collection as the server holds it when the event is delivered (events   *)
(* may lag, and a lagging client skips intermediate windows); remove(),    *)
(* update() and set() on users/ are applied at the call.                   *)
(*                                                                         *)
(* Four scenarios share the actions.  Spec: the chat (write, reply, photo, *)
(* delete, profile form).  FeedSpec: the chat against a collection with a  *)
(* history, with fair delivery of feed events.  SessionSpec: sign-out,     *)
(* sign-in, registration and the admin panel.  RolesSpec: promotion and    *)
(* profile edits while messages are sent.                                  *)
(*                                                                         *)
(* Strings whose content matters (compose text, image payloads) are        *)
(* sequences of one-character strings so that trim() and concatenation are *)
(* computed.  An optional field (replyTo, the reply state) is a sequence   *)
(* of length 0 (absent / null) or 1.                                       *)
(***************************************************************************)
EXTENDS Integers, Sequences, FiniteSets, TLC

\* ------------------------------------------------------------------ bounds
\* number of push() calls issued in one behaviour
MaxMsgs == 2
\* limitToLast(40) of the feed query, scaled down
WindowSize == 2

\* ---------------------------------------------------------------- universe
Clients == {"c1", "c2"}

\* the account each browser is signed in with
AccountOf(c) == IF c = "c1" THEN "u1" ELSE "u2"

Uids == {AccountOf(c) : c \in Clients}

\* the uid createUserWithEmailAndPassword gives the account it creates
NewUid == "u3"

Accounts == Uids \cup {NewUid}

NoUser == "null"

\* display names a user can enter in the profile form
Names == {"x"}

\* what the user can type in the compose field: blank, and text with a
\* trailing space
Texts == {<<" ">>, <<"a", " ">>}

\* Camera.getPhoto results: no data, some data
Base64s == {<<>>, <<"Q">>}

\* The scenario: both users write and delete messages; the user of c1 is
\* the one who answers messages, the user of c2 the one who takes photos,
\* visits the other views and edits the profile.
Repliers == {"c1"}

Photographers == {"c2"}

Navigators == {"c2"}

VARIABLES
  users,        \* database: users/{uid} records
  profile,      \* auth provider: displayName and photoURL of each account
  session,      \* auth provider: auth.currentUser in each browser
  reg,          \* AuthView: how far a register call of handleAuth has got
  listeners,    \* database: the value listeners each client has attached
                \* to users/{uid} and users/ and not detached
  groupUsers,   \* GroupView state: users
  usersDirty,   \* a value event of users/ is due at the client
  store,        \* database: messages/ collection, a set of stored messages
  pushes,       \* push() calls whose promise is still pending
  nextKey,      \* next push key (push keys are generated by the client)
  clock,        \* server clock, stamps createdAt when a push is committed
  user,         \* App state: user
  userRole,     \* App state: userRole
  loading,      \* App state: loading
  currentView,  \* App state: currentView
  roleDirty,    \* the uids whose users/{uid} value event is due at the
                \* client's role listener
  messages,     \* ChatView state: messages
  text,         \* ChatView state: text
  reply,        \* ChatView state: reply
  feedDirty,    \* a value event of the feed query is due at the client
  author,       \* history: uid that issued the push with key k
  lastOp        \* history: the handler or callback that ran last, with the
                \* transport call it made and the alert() it raised

vars == <<users, profile, session, reg, listeners, groupUsers, usersDirty,
          store, pushes, nextKey, clock, user, userRole, loading,
          currentView, roleDirty, messages, text, reply, feedDirty, author,
          lastOp>>

\* ---------------------------------------------------------------- helpers
IsSpace(ch) == ch = " "

\* String.prototype.trim: drop leading and trailing white space
RECURSIVE TrimLeft(_)
TrimLeft(t) ==
  IF t # <<>> /\ IsSpace(Head(t)) THEN TrimLeft(Tail(t)) ELSE t

RECURSIVE TrimRight(_)
TrimRight(t) ==
  IF t # <<>> /\ IsSpace(t[Len(t)]) THEN TrimRight(SubSeq(t, 1, Len(t) - 1))
  ELSE t

Trim(t) == TrimRight(TrimLeft(t))

\* `if (!text.trim()) return;` : the empty string is the only falsy string
IsBlankNoTrim(t) == t = <<>>

IsBlankNever(t) == FALSE

IsBlank(t) == Trim(t) = <<>>

\* `if (img.base64String)`
HasPhoto(b) == b # <<>>

\* `data:image/jpeg;base64,${img.base64String}`
DataUrl(b) == <<"data:image/jpeg;base64,">> \o b

\* absent optional field
Absent == <<>>

\* the children of a snapshot in key order (push keys sort chronologically)
RECURSIVE SortByKey(_)
SortByKey(S) ==
  IF S = {} THEN <<>>
  ELSE LET m == CHOOSE x \in S : \A y \in S : x.id <= y.id
       IN  <<m>> \o SortByKey(S \ {m})

\* query(dbRef(db, 'messages'), limitToLast(n)): the n children with the
\* greatest keys
LimitToLastAll(S, n) == S

LimitToLast(S, n) == {m \in S : Cardinality({y \in S : y.id > m.id}) < n}

\* snap.val() of the feed query: the window of the collection; {} is null
FeedVal(st) == LimitToLast(st, WindowSize)

\* the value-event callback of the feed:
\*   const data = snap.val();
\*   if (data) setMessages(Object.keys(data).map(k => ({ id: k, ...data[k] })));
\* Object.keys lists the children in the order val() inserted them: key order
OnFeedValueOnce(msgs, data) ==
  IF data = {} \/ msgs # <<>> THEN msgs ELSE SortByKey(data)

OnFeedValue(msgs, data) == IF data = {} THEN msgs ELSE SortByKey(data)

\* `(userRole === 'Admin' || m.uid === user.uid)` around the delete button
CanDeleteAnyone(role, uid, m) == TRUE

CanDelete(role, uid, m) == role = "Admin" \/ m.uid = uid

\* remove(dbRef(db, `messages/${m.id}`)) applied by the database
StoreAfterRemoveCascade(st, id) ==
  LET gone == {m \in st : m.id = id}
      rest == st \ gone
  IN  {IF m.replyTo # Absent /\ \E g \in gone : g.text = m.replyTo[1].text
       THEN [m EXCEPT !.replyTo = Absent] ELSE m : m \in rest}

StoreAfterRemove(st, id) == {m \in st : m.id # id}

\* ChatView is rendered: App lines 39-44
ChatMounted(c) ==
  /\ ~loading[c]
  /\ user[c] # NoUser
  /\ currentView[c] = "chat"

\* the payload sendMsg hands to push()
TextPayload(c) ==
  [text        |-> text[c],
   uid         |-> user[c],
   displayName |-> profile[user[c]].displayName,
   photoURL    |-> profile[user[c]].photoURL,
   role        |-> userRole[c],
   imageUrl    |-> Absent,
   replyTo     |-> IF reply[c] # <<>>
                   THEN <<[text   |-> reply[c][1].text,
                           sender |-> reply[c][1].displayName]>>
                   ELSE Absent]

\* the payload uploadImg hands to push()
ImagePayloadWithReply(c, b) ==
  [text        |-> <<>>,
   uid         |-> user[c],
   displayName |-> profile[user[c]].displayName,
   photoURL    |-> profile[user[c]].photoURL,
   role        |-> userRole[c],
   imageUrl    |-> DataUrl(b),
   replyTo     |-> IF reply[c] # <<>>
                   THEN <<[text   |-> reply[c][1].text,
                           sender |-> reply[c][1].displayName]>>
                   ELSE Absent]

ImagePayload(c, b) ==
  [text        |-> <<>>,
   uid         |-> user[c],
   displayName |-> profile[user[c]].displayName,
   photoURL    |-> profile[user[c]].photoURL,
   role        |-> userRole[c],
   imageUrl    |-> DataUrl(b),
   replyTo     |-> Absent]

\* the stored child: the payload under its push key, createdAt resolved from
\* the serverTimestamp() placeholder when the server commits the write
Stored(p, now) ==
  [id          |-> p.key,
   text        |-> p.payload.text,
   uid         |-> p.payload.uid,
   displayName |-> p.payload.displayName,
   photoURL    |-> p.payload.photoURL,
   role        |-> p.payload.role,
   imageUrl    |-> p.payload.imageUrl,
   replyTo     |-> p.payload.replyTo,
   createdAt   |-> now]

\* every client whose feed listener is attached gets a value event when the
\* window of the collection changes
FeedDirtyAfter(st) ==
  [c \in Clients |->
     IF ChatMounted(c) /\ FeedVal(st) # FeedVal(store) THEN TRUE
     ELSE feedDirty[c]]

\* a handler run by client c: id names the message of a remove() or the key
\* of a rejected push (0 when the handler made neither call), by and role the identity that called
\* remove(), alert the text handed to alert() ("": none)
Call(name, c, id, by, role, alert) ==
  [op |-> name, client |-> c, id |-> id, by |-> by, role |-> role,
   alert |-> alert]

Op(name, c) == Call(name, c, 0, "", "", "")

\* -------------------------------------------------------------------- Init
Start(st) ==
  /\ users = [u \in Uids |->
                [role |-> IF u = "u1" THEN "Admin" ELSE "Member"]]
  /\ profile = [u \in Accounts |->
                  [displayName |-> IF u = "u1" THEN "x"
                                   ELSE IF u = "u2" THEN "y" ELSE "",
                   photoURL    |-> IF u = "u1" THEN "ax"
                                   ELSE IF u = "u2" THEN "ay" ELSE ""]]
  /\ session = [c \in Clients |-> AccountOf(c)]
  /\ reg = [stage |-> "none", client |-> "", name |-> ""]
  /\ listeners = [c \in Clients |-> {}]
  /\ groupUsers = [c \in Clients |-> {}]
  /\ usersDirty = [c \in Clients |-> FALSE]
  /\ store = st
  /\ pushes = {}
  /\ nextKey = 1
  /\ clock = 1
  /\ user = [c \in Clients |-> NoUser]
  /\ userRole = [c \in Clients |-> "Member"]
  /\ loading = [c \in Clients |-> TRUE]
  /\ currentView = [c \in Clients |-> "chat"]
  /\ roleDirty = [c \in Clients |-> {}]
  /\ messages = [c \in Clients |-> <<>>]
  /\ text = [c \in Clients |-> <<>>]
  /\ reply = [c \in Clients |-> <<>>]
  /\ feedDirty = [c \in Clients |-> FALSE]
  /\ author = <<>>
  /\ lastOp = Op("init", "c1")

\* the clients start against an empty collection
Init == Start({})

\* a message stored before the clients start (its key precedes theirs)
OldMessage ==
  [id          |-> 0,
   text        |-> <<"a", " ">>,
   uid         |-> "u1",
   displayName |-> "x",
   photoURL    |-> "ax",
   role        |-> "Admin",
   imageUrl    |-> Absent,
   replyTo     |-> Absent,
   createdAt   |-> 0]

\* the clients start against a collection that has a history
InitFeed == Start({OldMessage})

\* ----------------------------------------------------------------- actions
\* `snap.val().role || 'Member'`
RoleOf(rec) == IF rec.role = "" THEN "Member" ELSE rec.role

\* GroupView is rendered
GroupMounted(c) ==
  /\ ~loading[c]
  /\ user[c] # NoUser
  /\ currentView[c] = "group"

\* the value listeners of the model, by the component whose effect attached
\* them and the path listened to; none of the three is ever detached (the
\* return value of onValue is dropped, the effects return no cleanup)
RoleListener(u) == [owner |-> "App", path |-> u]

ProfileListener(u) == [owner |-> "PersonalSettingsView", path |-> u]

GroupListener == [owner |-> "GroupView", path |-> "users"]

\* the listeners the effects of view v attach when it is mounted for user u
\* with the role prop r
ViewListeners(v, u, r) ==
  IF v = "personal" THEN {ProfileListener(u)}
  ELSE IF v = "group" /\ r = "Admin" THEN {GroupListener}
  ELSE {}

\* users/{u} has changed: the role listeners on it have a value event due
RoleDirtyAfter(u) ==
  [d \in Clients |->
     IF RoleListener(u) \in listeners[d] THEN roleDirty[d] \cup {u}
     ELSE roleDirty[d]]

\* users/ has changed: a rendered GroupView that listens has an event due
UsersDirtyAfter ==
  [d \in Clients |->
     IF GroupMounted(d) /\ GroupListener \in listeners[d] THEN TRUE
     ELSE usersDirty[d]]

\* the pending sends of a ChatView that is unmounted: their continuation
\* (setText(''), setReply(null)) no longer reaches a rendered component
Orphaned(c) ==
  {IF p.client = c THEN [p EXCEPT !.resume = FALSE] ELSE p : p \in pushes}

\* onAuthStateChanged callback: setUser(currentUser); with a user, a value
\* listener on users/{uid} is attached (its first event is then due) and,
\* unless the loader is shown, the current view is rendered for that user
\* with the userRole left in the state; without a user, setLoading(false)
\* and AuthView replaces the views
AuthStateChanged(c) ==
  /\ user[c] # session[c]
  /\ user' = [user EXCEPT ![c] = session[c]]
  /\ IF session[c] # NoUser
     THEN /\ roleDirty' = [roleDirty EXCEPT ![c] = @ \cup {session[c]}]
          /\ listeners' = [listeners EXCEPT ![c] =
               @ \cup {RoleListener(session[c])} \cup
               (IF loading[c] THEN {}
                ELSE ViewListeners(currentView[c], session[c], userRole[c]))]
          /\ feedDirty' = [feedDirty EXCEPT ![c] =
               ~loading[c] /\ currentView[c] = "chat"]
          /\ usersDirty' = [usersDirty EXCEPT ![c] =
               ~loading[c] /\ currentView[c] = "group"
                           /\ userRole[c] = "Admin"]
          /\ UNCHANGED <<loading, messages, text, reply, groupUsers, pushes>>
     ELSE /\ loading' = [loading EXCEPT ![c] = FALSE]
          /\ messages' = [messages EXCEPT ![c] = <<>>]
          /\ text' = [text EXCEPT ![c] = <<>>]
          /\ reply' = [reply EXCEPT ![c] = <<>>]
          /\ groupUsers' = [groupUsers EXCEPT ![c] = {}]
          /\ feedDirty' = [feedDirty EXCEPT ![c] = FALSE]
          /\ usersDirty' = [usersDirty EXCEPT ![c] = FALSE]
          /\ pushes' = Orphaned(c)
          /\ UNCHANGED <<roleDirty, listeners>>
  /\ lastOp' = Op("authStateChanged", c)
  /\ UNCHANGED <<users, profile, session, reg, store, nextKey, clock,
                 userRole, currentView, author>>

\* value event of users/{u} at the listener App attached for u:
\*   if (snap.exists()) setUserRole(snap.val().role || 'Member');
\*   setLoading(false);
\* The callback does not look at who is signed in.  The views are rendered
\* for the first time when loading drops (ChatView subscribes to the feed);
\* the effect of a rendered GroupView runs again when userRole changes.
RoleSnapshot(c, u) ==
  /\ u \in roleDirty[c]
  /\ roleDirty' = [roleDirty EXCEPT ![c] = @ \ {u}]
  /\ userRole' = [userRole EXCEPT ![c] =
                    IF u \in DOMAIN users THEN RoleOf(users[u]) ELSE @]
  /\ loading' = [loading EXCEPT ![c] = FALSE]
  /\ feedDirty' = [feedDirty EXCEPT ![c] =
                     IF loading[c] /\ user[c] # NoUser
                                   /\ currentView[c] = "chat"
                     THEN TRUE ELSE @]
  /\ LET regroup == /\ GroupMounted(c)
                    /\ userRole'[c] = "Admin"
                    /\ userRole[c] # "Admin"
     IN  /\ listeners' = [listeners EXCEPT ![c] =
                            IF regroup THEN @ \cup {GroupListener} ELSE @]
         /\ usersDirty' = [usersDirty EXCEPT ![c] =
                             IF regroup THEN TRUE ELSE @]
  /\ lastOp' = Op("roleSnapshot", c)
  /\ UNCHANGED <<users, profile, session, reg, groupUsers, store, pushes,
                 nextKey, clock, user, currentView, messages, text, reply,
                 author>>

\* onNavigate(v) = setCurrentView(v).  The header of ChatView leads to
\* 'personal' and 'group', the other two views lead back to 'chat'.  Leaving
\* 'chat' unmounts ChatView (its state is dropped, the feed listener is
\* detached by the effect's cleanup); entering it mounts a fresh ChatView.
\* The effects of the other two views attach their listeners at the mount;
\* the state of GroupView is dropped when it is unmounted.
Navigate(c, v) ==
  /\ user[c] # NoUser
  /\ ~loading[c]
  /\ \/ currentView[c] = "chat" /\ v \in {"personal", "group"}
     \/ currentView[c] \in {"personal", "group"} /\ v = "chat"
  /\ currentView' = [currentView EXCEPT ![c] = v]
  /\ messages' = [messages EXCEPT ![c] = <<>>]
  /\ text' = [text EXCEPT ![c] = <<>>]
  /\ reply' = [reply EXCEPT ![c] = <<>>]
  /\ feedDirty' = [feedDirty EXCEPT ![c] = (v = "chat")]
  /\ pushes' = IF v = "chat" THEN pushes ELSE Orphaned(c)
  /\ listeners' = [listeners EXCEPT ![c] =
                     @ \cup ViewListeners(v, user[c], userRole[c])]
  /\ groupUsers' = [groupUsers EXCEPT ![c] = {}]
  /\ usersDirty' = [usersDirty EXCEPT ![c] =
                      v = "group" /\ userRole[c] = "Admin"]
  /\ lastOp' = Op("navigate", c)
  /\ UNCHANGED <<users, profile, session, reg, store, nextKey, clock, user,
                 userRole, loading, roleDirty, author>>

\* onChange of the compose input: setText(e.target.value)
SetText(c, t) ==
  /\ ChatMounted(c)
  /\ t # text[c]
  /\ text' = [text EXCEPT ![c] = t]
  /\ UNCHANGED <<session, reg, listeners, groupUsers, usersDirty>>
  /\ lastOp' = Op("setText", c)
  /\ UNCHANGED <<users, profile, store, pushes, nextKey, clock, user,
                 userRole, loading, currentView, roleDirty, messages, reply,
                 feedDirty, author>>

\* push(dbRef(db, 'messages'), payload): the client generates the key and
\* the write is in flight until the server answers.  resume: the handler
\* that awaits the promise has statements left that reach a rendered
\* ChatView (sendMsg: setText(''); setReply(null))
IssuePush(c, payload, resume) ==
  /\ nextKey <= MaxMsgs
  /\ pushes' = pushes \cup
       {[key |-> nextKey, client |-> c, resume |-> resume,
         payload |-> payload]}
  /\ nextKey' = nextKey + 1
  /\ author' = Append(author, payload.uid)

\* sendMsg up to its await: return when the trimmed text is empty, else
\* push the payload built from text, user, userRole and reply
SendMsgOptimistic(c) ==
  /\ ChatMounted(c)
  /\ IF IsBlank(text[c])
     THEN UNCHANGED <<pushes, nextKey, author, messages>>
     ELSE /\ IssuePush(c, TextPayload(c), TRUE)
          /\ messages' = [messages EXCEPT ![c] =
               Append(@, Stored([key |-> nextKey, payload |-> TextPayload(c)],
                                clock))]
  /\ UNCHANGED <<session, reg, listeners, groupUsers, usersDirty>>
  /\ lastOp' = Op("sendMsg", c)
  /\ UNCHANGED <<users, profile, store, clock, user, userRole, loading,
                 currentView, roleDirty, text, reply, feedDirty>>

SendMsg(c) ==
  /\ ChatMounted(c)
  /\ IF IsBlank(text[c])
     THEN UNCHANGED <<pushes, nextKey, author>>
     ELSE IssuePush(c, TextPayload(c), TRUE)
  /\ UNCHANGED <<session, reg, listeners, groupUsers, usersDirty>>
  /\ lastOp' = Op("sendMsg", c)
  /\ UNCHANGED <<users, profile, store, clock, user, userRole, loading,
                 currentView, roleDirty, messages, text, reply, feedDirty>>

\* uploadImg: Camera.getPhoto, then push an image message when the photo
\* carries data; nothing follows the await of push
UploadImg(c, b) ==
  /\ ChatMounted(c)
  /\ IF HasPhoto(b)
     THEN IssuePush(c, ImagePayload(c, b), FALSE)
     ELSE UNCHANGED <<pushes, nextKey, author>>
  /\ UNCHANGED <<session, reg, listeners, groupUsers, usersDirty>>
  /\ lastOp' = Op("uploadImg", c)
  /\ UNCHANGED <<users, profile, store, clock, user, userRole, loading,
                 currentView, roleDirty, messages, text, reply, feedDirty>>

\* the writes of one client reach the server in the order they were issued
Oldest(p) == \A q \in pushes : q.client = p.client => p.key <= q.key

\* the server commits the push and the promise resolves: sendMsg resumes
\* with setText(''); setReply(null) (uploadImg has nothing left to do)
PushAckKeepsReply(p) ==
  /\ p \in pushes
  /\ Oldest(p)
  /\ store' = store \cup {Stored(p, clock)}
  /\ clock' = clock + 1
  /\ pushes' = pushes \ {p}
  /\ feedDirty' = FeedDirtyAfter(store')
  /\ IF p.resume
     THEN /\ text' = [text EXCEPT ![p.client] = <<>>]
          /\ reply' = reply
     ELSE UNCHANGED <<text, reply>>
  /\ UNCHANGED <<session, reg, listeners, groupUsers, usersDirty>>
  /\ lastOp' = Op("pushAck", p.client)
  /\ UNCHANGED <<users, profile, nextKey, user, userRole, loading,
                 currentView, roleDirty, messages, author>>

PushAck(p) ==
  /\ p \in pushes
  /\ Oldest(p)
  /\ store' = store \cup {Stored(p, clock)}
  /\ clock' = clock + 1
  /\ pushes' = pushes \ {p}
  /\ feedDirty' = FeedDirtyAfter(store')
  /\ IF p.resume
     THEN /\ text' = [text EXCEPT ![p.client] = <<>>]
          /\ reply' = [reply EXCEPT ![p.client] = <<>>]
     ELSE UNCHANGED <<text, reply>>
  /\ UNCHANGED <<session, reg, listeners, groupUsers, usersDirty>>
  /\ lastOp' = Op("pushAck", p.client)
  /\ UNCHANGED <<users, profile, nextKey, user, userRole, loading,
                 currentView, roleDirty, messages, author>>

\* the server rejects the push and the promise rejects: the await throws,
\* sendMsg / uploadImg have no catch, the rest of the handler is skipped
PushFail(p) ==
  /\ p \in pushes
  /\ Oldest(p)
  /\ pushes' = pushes \ {p}
  /\ UNCHANGED <<session, reg, listeners, groupUsers, usersDirty>>
  /\ lastOp' = Call("pushFail", p.client, p.key, "", "", "")
  /\ UNCHANGED <<users, profile, store, nextKey, clock, user, userRole,
                 loading, currentView, roleDirty, messages, text, reply,
                 feedDirty, author>>

\* value event of the feed query at a client with the listener attached
SnapshotDropsStaleReply(c) ==
  /\ ChatMounted(c)
  /\ feedDirty[c]
  /\ messages' = [messages EXCEPT ![c] = OnFeedValue(@, FeedVal(store))]
  /\ reply' = [reply EXCEPT ![c] =
                 IF @ # <<>> /\ @[1] \notin FeedVal(store) THEN <<>> ELSE @]
  /\ feedDirty' = [feedDirty EXCEPT ![c] = FALSE]
  /\ UNCHANGED <<session, reg, listeners, groupUsers, usersDirty>>
  /\ lastOp' = Op("snapshot", c)
  /\ UNCHANGED <<users, profile, store, pushes, nextKey, clock, user,
                 userRole, loading, currentView, roleDirty, text, author>>

Snapshot(c) ==
  /\ ChatMounted(c)
  /\ feedDirty[c]
  /\ messages' = [messages EXCEPT ![c] = OnFeedValue(@, FeedVal(store))]
  /\ feedDirty' = [feedDirty EXCEPT ![c] = FALSE]
  /\ UNCHANGED <<session, reg, listeners, groupUsers, usersDirty>>
  /\ lastOp' = Op("snapshot", c)
  /\ UNCHANGED <<users, profile, store, pushes, nextKey, clock, user,
                 userRole, loading, currentView, roleDirty, text, reply,
                 author>>

\* the reply button of the message menu: setReply(m)
ComposeReplyPrefill(c, i) ==
  /\ ChatMounted(c)
  /\ i \in 1..Len(messages[c])
  /\ reply' = [reply EXCEPT ![c] = <<messages[c][i]>>]
  /\ text' = [text EXCEPT ![c] = <<"a", " ">>]
  /\ UNCHANGED <<session, reg, listeners, groupUsers, usersDirty>>
  /\ lastOp' = Op("composeReply", c)
  /\ UNCHANGED <<users, profile, store, pushes, nextKey, clock, user,
                 userRole, loading, currentView, roleDirty, messages,
                 feedDirty, author>>

ComposeReply(c, i) ==
  /\ ChatMounted(c)
  /\ i \in 1..Len(messages[c])
  /\ reply' = [reply EXCEPT ![c] = <<messages[c][i]>>]
  /\ UNCHANGED <<session, reg, listeners, groupUsers, usersDirty>>
  /\ lastOp' = Op("composeReply", c)
  /\ UNCHANGED <<users, profile, store, pushes, nextKey, clock, user,
                 userRole, loading, currentView, roleDirty, messages, text,
                 feedDirty, author>>

\* the X of the reply banner, rendered while reply is set: setReply(null)
ClearReply(c) ==
  /\ ChatMounted(c)
  /\ reply[c] # <<>>
  /\ reply' = [reply EXCEPT ![c] = <<>>]
  /\ UNCHANGED <<session, reg, listeners, groupUsers, usersDirty>>
  /\ lastOp' = Op("clearReply", c)
  /\ UNCHANGED <<users, profile, store, pushes, nextKey, clock, user,
                 userRole, loading, currentView, roleDirty, messages, text,
                 feedDirty, author>>

\* the delete button of the message menu, rendered under the role gate:
\* remove(dbRef(db, `messages/${m.id}`)); the server applies the removal
DeleteMessage(c, i) ==
  /\ ChatMounted(c)
  /\ i \in 1..Len(messages[c])
  /\ CanDelete(userRole[c], user[c], messages[c][i])
  /\ store' = StoreAfterRemove(store, messages[c][i].id)
  /\ feedDirty' = FeedDirtyAfter(store')
  /\ UNCHANGED <<session, reg, listeners, groupUsers, usersDirty>>
  /\ lastOp' = Call("deleteMessage", c, messages[c][i].id, user[c],
                   userRole[c], "")
  /\ UNCHANGED <<users, profile, pushes, nextKey, clock, user, userRole,
                 loading, currentView, roleDirty, messages, text, reply,
                 author>>

\* PersonalSettingsView.save with n in the name field: updateProfile,
\* update(users/{uid}) of name and bio, alert, onNavigate('chat') mounting a
\* fresh ChatView.  name and bio are read by no other code and are not kept
\* in the model: the name of a record is the displayName of its account, so
\* the record changes when the displayName does.  update() leaves the role
\* as it is and creates the record, without a role, when there is none.
SaveResync(c, n) ==
  /\ user[c] # NoUser
  /\ ~loading[c]
  /\ currentView[c] = "personal"
  /\ profile' = [profile EXCEPT ![user[c]].displayName = n]
  /\ store' = {IF m.uid = user[c] THEN [m EXCEPT !.displayName = n] ELSE m :
                 m \in store}
  /\ users' = IF user[c] \in DOMAIN users THEN users
              ELSE [u \in DOMAIN users \cup {user[c]} |->
                      IF u = user[c] THEN [role |-> ""] ELSE users[u]]
  /\ IF user[c] \notin DOMAIN users \/ n # profile[user[c]].displayName
     THEN /\ roleDirty' = RoleDirtyAfter(user[c])
          /\ usersDirty' = UsersDirtyAfter
     ELSE UNCHANGED <<roleDirty, usersDirty>>
  /\ currentView' = [currentView EXCEPT ![c] = "chat"]
  /\ feedDirty' = [feedDirty EXCEPT ![c] = TRUE]
  /\ lastOp' = Call("save", c, 0, "", "", "saved")
  /\ UNCHANGED <<session, reg, listeners, groupUsers, pushes, nextKey,
                 clock, user, userRole, loading, messages, text, reply,
                 author>>

Save(c, n) ==
  /\ user[c] # NoUser
  /\ ~loading[c]
  /\ currentView[c] = "personal"
  /\ profile' = [profile EXCEPT ![user[c]].displayName = n]
  /\ users' = IF user[c] \in DOMAIN users THEN users
              ELSE [u \in DOMAIN users \cup {user[c]} |->
                      IF u = user[c] THEN [role |-> ""] ELSE users[u]]
  /\ IF user[c] \notin DOMAIN users \/ n # profile[user[c]].displayName
     THEN /\ roleDirty' = RoleDirtyAfter(user[c])
          /\ usersDirty' = UsersDirtyAfter
     ELSE UNCHANGED <<roleDirty, usersDirty>>
  /\ currentView' = [currentView EXCEPT ![c] = "chat"]
  /\ feedDirty' = [feedDirty EXCEPT ![c] = TRUE]
  /\ lastOp' = Call("save", c, 0, "", "", "saved")
  /\ UNCHANGED <<session, reg, listeners, groupUsers, store, pushes, nextKey,
                 clock, user, userRole, loading, messages, text, reply,
                 author>>

\* the LOGOUT button of PersonalSettingsView: auth.signOut(); the callback
\* of onAuthStateChanged follows
SignOut(c) ==
  /\ user[c] # NoUser
  /\ ~loading[c]
  /\ currentView[c] = "personal"
  /\ session[c] = user[c]
  /\ session' = [session EXCEPT ![c] = NoUser]
  /\ lastOp' = Op("signOut", c)
  /\ UNCHANGED <<users, profile, reg, listeners, groupUsers, usersDirty,
                 store, pushes, nextKey, clock, user, userRole, loading,
                 currentView, roleDirty, messages, text, reply, feedDirty,
                 author>>

\* the accounts the auth provider knows
Registered == IF reg.stage = "none" THEN Uids ELSE Accounts

\* AuthView is rendered
AuthMounted(c) ==
  /\ ~loading[c]
  /\ user[c] = NoUser
  /\ session[c] = NoUser

\* handleAuth with isLogin: signInWithEmailAndPassword resolves for account u
Login(c, u) ==
  /\ AuthMounted(c)
  /\ u \in Registered
  /\ session' = [session EXCEPT ![c] = u]
  /\ lastOp' = Op("login", c)
  /\ UNCHANGED <<users, profile, reg, listeners, groupUsers, usersDirty,
                 store, pushes, nextKey, clock, user, userRole, loading,
                 currentView, roleDirty, messages, text, reply, feedDirty,
                 author>>

\* handleAuth without isLogin, up to its second await:
\* createUserWithEmailAndPassword resolves, the new account is signed in
Register(c, n) ==
  /\ AuthMounted(c)
  /\ reg.stage = "none"
  /\ session' = [session EXCEPT ![c] = NewUid]
  /\ reg' = [stage |-> "created", client |-> c, name |-> n]
  /\ lastOp' = Op("register", c)
  /\ UNCHANGED <<users, profile, listeners, groupUsers, usersDirty, store,
                 pushes, nextKey, clock, user, userRole, loading,
                 currentView, roleDirty, messages, text, reply, feedDirty,
                 author>>

\* `https://ui-avatars.com/api/?name=${name}&background=6366f1&color=fff`
AvatarOf(n) == "a" \o n

\* handleAuth: updateProfile(res.user, {displayName, photoURL}) resolves
RegisterProfile ==
  /\ reg.stage = "created"
  /\ profile' = [profile EXCEPT ![NewUid] =
                   [displayName |-> reg.name, photoURL |-> AvatarOf(reg.name)]]
  /\ reg' = [reg EXCEPT !.stage = "profiled"]
  /\ lastOp' = Op("registerProfile", reg.client)
  /\ UNCHANGED <<users, session, listeners, groupUsers, usersDirty, store,
                 pushes, nextKey, clock, user, userRole, loading,
                 currentView, roleDirty, messages, text, reply, feedDirty,
                 author>>

\* the role handleAuth writes into the record of a new account
DefaultRoleAdmin == "Admin"

DefaultRole == "Member"

\* handleAuth: set(users/{uid}, {role: 'Member', name, bio}) is applied and
\* resolves; the handler has run to its end
RegisterSet ==
  /\ reg.stage = "profiled"
  /\ users' = [u \in DOMAIN users \cup {NewUid} |->
                 IF u = NewUid THEN [role |-> DefaultRole] ELSE users[u]]
  /\ roleDirty' = RoleDirtyAfter(NewUid)
  /\ usersDirty' = UsersDirtyAfter
  /\ reg' = [reg EXCEPT !.stage = "done"]
  /\ lastOp' = Op("registerSet", reg.client)
  /\ UNCHANGED <<profile, session, listeners, groupUsers, store, pushes,
                 nextKey, clock, user, userRole, loading, currentView,
                 messages, text, reply, feedDirty, author>>

\* handleAuth: updateProfile or set rejects; the catch raises the alert and
\* the rest of the handler is skipped
RegisterFail ==
  /\ reg.stage \in {"created", "profiled"}
  /\ reg' = [reg EXCEPT !.stage = "failed"]
  /\ lastOp' = Call("registerFail", reg.client, 0, "", "", "data error")
  /\ UNCHANGED <<users, profile, session, listeners, groupUsers, usersDirty,
                 store, pushes, nextKey, clock, user, userRole, loading,
                 currentView, roleDirty, messages, text, reply, feedDirty,
                 author>>

\* value event of users/ at a rendered GroupView that listens:
\*   if (data) setUsers(Object.keys(data).map(k => ({ uid: k, ...data[k] })))
UsersSnapshot(c) ==
  /\ GroupMounted(c)
  /\ usersDirty[c]
  /\ groupUsers' = [groupUsers EXCEPT ![c] =
       IF DOMAIN users = {} THEN @
       ELSE {[uid |-> u, role |-> users[u].role] : u \in DOMAIN users}]
  /\ usersDirty' = [usersDirty EXCEPT ![c] = FALSE]
  /\ lastOp' = Op("usersSnapshot", c)
  /\ UNCHANGED <<users, profile, session, reg, listeners, store, pushes,
                 nextKey, clock, user, userRole, loading, currentView,
                 roleDirty, messages, text, reply, feedDirty, author>>

\* the promote button of the admin panel, rendered when userRole is 'Admin'
\* next to every listed user whose listed role is not 'Admin':
\* update(users/{uid}, {role: 'Admin'}), applied by the database
Promote(c, u) ==
  /\ GroupMounted(c)
  /\ userRole[c] = "Admin"
  /\ \E r \in groupUsers[c] : r.uid = u /\ r.role # "Admin"
  /\ users' = [users EXCEPT ![u].role = "Admin"]
  /\ IF users[u].role # "Admin"
     THEN /\ roleDirty' = RoleDirtyAfter(u)
          /\ usersDirty' = UsersDirtyAfter
     ELSE UNCHANGED <<roleDirty, usersDirty>>
  /\ lastOp' = Call("promote", c, 0, user[c], userRole[c], "")
  /\ UNCHANGED <<profile, session, reg, listeners, groupUsers, store, pushes,
                 nextKey, clock, user, userRole, loading, currentView,
                 messages, text, reply, feedDirty, author>>

Next ==
  \/ \E c \in Clients : AuthStateChanged(c)
  \/ \E c \in Clients, u \in Accounts : RoleSnapshot(c, u)
  \/ \E c \in Navigators, v \in {"chat", "personal", "group"} :
        Navigate(c, v)
  \/ \E c \in Clients, t \in Texts \cup {<<>>} : SetText(c, t)
  \/ \E c \in Clients : SendMsg(c)
  \/ \E c \in Photographers, b \in Base64s : UploadImg(c, b)
  \/ \E p \in pushes : PushAck(p)
  \/ \E p \in pushes : PushFail(p)
  \/ \E c \in Clients : Snapshot(c)
  \/ \E c \in Repliers, i \in 1..WindowSize : ComposeReply(c, i)
  \/ \E c \in Clients : ClearReply(c)
  \/ \E c \in Clients, i \in 1..WindowSize : DeleteMessage(c, i)
  \/ \E c \in Navigators, n \in Names : Save(c, n)

Spec == Init /\ [][Next]_vars

\* The sessions scenario: the user at c1 visits the views, edits the
\* profile, promotes members, signs out and signs in again or registers a
\* new account; the user at c2 stays signed in.  Nobody writes messages.
Switchers == {"c1"}

SessionNext ==
  \/ \E c \in Clients : AuthStateChanged(c)
  \/ \E c \in Clients, u \in Accounts : RoleSnapshot(c, u)
  \/ \E c \in Switchers, v \in {"chat", "personal", "group"} : Navigate(c, v)
  \/ \E c \in Switchers : SignOut(c)
  \/ \E c \in Switchers, u \in Accounts : Login(c, u)
  \/ \E c \in Switchers, n \in Names : Register(c, n)
  \/ RegisterProfile
  \/ RegisterSet
  \/ RegisterFail
  \/ \E c \in Switchers : UsersSnapshot(c)
  \/ \E c \in Switchers, u \in Accounts : Promote(c, u)
  \/ \E c \in Switchers, n \in Names : Save(c, n)
  \/ \E c \in Clients : Snapshot(c)

SessionSpec == Init /\ [][SessionNext]_vars

\* The roles scenario: the admin at c1 opens the admin panel and promotes
\* members; the member at c2 sends text messages, edits the profile and is
\* promoted meanwhile.  Nobody signs out, replies, deletes or takes photos.
Admins == {"c1"}

Writers == {"c2"}

RolesNext ==
  \/ \E c \in Clients : AuthStateChanged(c)
  \/ \E c \in Clients, u \in Accounts : RoleSnapshot(c, u)
  \/ \E c \in Clients, v \in {"chat", "personal", "group"} : Navigate(c, v)
  \/ \E c \in Admins : UsersSnapshot(c)
  \/ \E c \in Admins, u \in Accounts : Promote(c, u)
  \/ \E c \in Writers, n \in Names : Save(c, n)
  \/ \E c \in Writers, t \in Texts : SetText(c, t)
  \/ \E c \in Writers : SendMsg(c)
  \/ \E p \in pushes : PushAck(p)
  \/ \E c \in Clients : Snapshot(c)

RolesSpec == Init /\ [][RolesNext]_vars

\* The feed scenario: the collection has a history, so that the messages
\* sent outgrow the window; both users write and delete, the user of c2
\* takes photos.  Nobody replies or leaves the chat view.  The database
\* delivers the value event that is due at an attached listener.
FeedNext ==
  \/ \E c \in Clients : AuthStateChanged(c)
  \/ \E c \in Clients, u \in Accounts : RoleSnapshot(c, u)
  \/ \E c \in Clients, t \in Texts \cup {<<>>} : SetText(c, t)
  \/ \E c \in Clients : SendMsg(c)
  \/ \E c \in Photographers, b \in Base64s : UploadImg(c, b)
  \/ \E p \in pushes : PushAck(p)
  \/ \E p \in pushes : PushFail(p)
  \/ \E c \in Clients : Snapshot(c)
  \/ \E c \in Clients, i \in 1..WindowSize : DeleteMessage(c, i)

FeedSpec ==
  /\ InitFeed
  /\ [][FeedNext]_vars
  /\ \A c \in Clients : WF_vars(Snapshot(c))

\* The attachments scenario: the user of c2 answers messages and takes
\* photos while answering; both users write.  Nobody deletes or leaves the
\* chat view.
AttachNext ==
  \/ \E c \in Clients : AuthStateChanged(c)
  \/ \E c \in Clients, u \in Accounts : RoleSnapshot(c, u)
  \/ \E c \in Clients, t \in Texts \cup {<<>>} : SetText(c, t)
  \/ \E c \in Clients : SendMsg(c)
  \/ \E c \in Photographers, b \in Base64s : UploadImg(c, b)
  \/ \E p \in pushes : PushAck(p)
  \/ \E p \in pushes : PushFail(p)
  \/ \E c \in Clients : Snapshot(c)
  \/ \E c \in Photographers, i \in 1..WindowSize : ComposeReply(c, i)
  \/ \E c \in Photographers : ClearReply(c)

AttachSpec == Init /\ [][AttachNext]_vars

\* ------------------------------------------------------------------ claims
Listed(c) == {messages[c][i] : i \in 1..Len(messages[c])}

Transport == <<store, pushes, nextKey>>

\* C1: after every feed event the messages list of every client is sorted
\* ascending by createdAt, whatever order the snapshot lists its children in.
C1_SortedByCreatedAt ==
  \A c \in Clients : \A i, j \in 1..Len(messages[c]) :
    i < j => messages[c][i].createdAt <= messages[c][j].createdAt

\* C2: after a feed event the messages list of the client holds exactly the
\* messages of the delivered snapshot, also when the snapshot is empty.
C2_WholesaleReplacement ==
  \A c \in Clients :
    lastOp = Op("snapshot", c) => Listed(c) = FeedVal(store)

\* C3: once a client with the feed listener attached has received the
\* snapshot that follows a removal, the removed message is absent from its
\* messages list: with no feed event due, every listed message is stored.
C3_DeletedAbsentAfterSnapshot ==
  \A c \in Clients :
    (ChatMounted(c) /\ ~feedDirty[c]) => Listed(c) \subseteq store

\* C4: every remove() call on messages/{id} is issued by a client whose user
\* id is the senderId of the message or whose role is "Admin".
C4_DeleteAuthorized ==
  lastOp.op = "deleteMessage" =>
    (lastOp.by = author[lastOp.id] \/ lastOp.role = "Admin")

\* a Member has removed a message of its own while a message of another
\* user was listed next to it
C4_Witness ==
  /\ lastOp.op = "deleteMessage"
  /\ lastOp.role # "Admin"
  /\ lastOp.by = author[lastOp.id]
  /\ \E m \in Listed(lastOp.client) : m.uid # lastOp.by

\* C5: sendMsg with a compose text that is empty after trimming makes no
\* transport call and leaves text, reply and messages as they were.
C5_BlankSendIsNoop ==
  [][\A c \in Clients :
       (lastOp' = Op("sendMsg", c) /\ Trim(text[c]) = <<>>)
         => UNCHANGED <<Transport, text, reply, messages>>]_vars

\* sendMsg has just run on a compose text made of white space, with a reply
\* target selected
C5_Witness ==
  \E c \in Clients :
    /\ lastOp = Op("sendMsg", c)
    /\ text[c] # <<>>
    /\ Trim(text[c]) = <<>>
    /\ reply[c] # <<>>

\* C6: every message handed to push() by sendMsg or uploadImg, pending or
\* stored, has a non-empty text or an image.
C6_NoEmptyMessage ==
  /\ \A p \in pushes : p.payload.text # <<>> \/ p.payload.imageUrl # Absent
  /\ \A m \in store : m.text # <<>> \/ m.imageUrl # Absent

\* an image message with empty text is stored next to a text message
C6_Witness ==
  /\ \E m \in store : m.text = <<>> /\ m.imageUrl # Absent
  /\ \E m \in store : m.text # <<>> /\ m.imageUrl = Absent

\* C7: a stored message keeps the replyTo it was stored with for as long as
\* it is stored, whatever step is taken.
C7_ReplyContextImmutable ==
  [][\A m \in store : \A n \in store' :
       n.id = m.id => n.replyTo = m.replyTo]_vars

\* a stored reply whose quoted original has been removed and whose quoted
\* sender has since changed the display name
C7_Witness ==
  \E m \in store :
    /\ m.replyTo # Absent
    /\ \A o \in store : o.id >= m.id
    /\ lastOp.op = "deleteMessage"
    /\ \A u \in Uids : profile[u].displayName # m.replyTo[1].sender

\* C8: selecting a reply target leaves text alone, clearing it sets reply to
\* null and leaves text alone, and neither makes a transport call.
C8_ReplyComposeFrame ==
  [][\A c \in Clients :
       /\ lastOp' = Op("composeReply", c)
            => (reply'[c] # <<>> /\ text' = text /\ UNCHANGED Transport)
       /\ lastOp' = Op("clearReply", c)
            => (reply'[c] = <<>> /\ text' = text /\ UNCHANGED Transport)]_vars

\* the reply target has just been cleared while a text was being composed
C8_Witness ==
  \E c \in Clients :
    /\ lastOp = Op("clearReply", c)
    /\ text[c] # <<>>
    /\ reply[c] = <<>>
    /\ store # {}

\* C9: when the push of sendMsg succeeds, text and reply of the ChatView
\* that sent it are cleared; when it fails, text and reply are left as they
\* are.
C9_ClearOnSuccessKeepOnFailure ==
  [][\A p \in pushes :
       /\ (lastOp'.op = "pushAck" /\ p \notin pushes' /\ p.resume)
            => (text'[p.client] = <<>> /\ reply'[p.client] = <<>>)
       /\ (lastOp'.op = "pushFail" /\ p \notin pushes')
            => (text' = text /\ reply' = reply)]_vars

\* a push of sendMsg has just been rejected and the composed text and the
\* reply target are still there
C9_Witness ==
  /\ lastOp.op = "pushFail"
  /\ lastOp.client \notin Photographers
  /\ text[lastOp.client] # <<>>
  /\ reply[lastOp.client] # <<>>

\* C10: a rejected push is reported: the handler whose push was rejected
\* raises an alert (or logs).
C10_FailedSendReported ==
  lastOp.op = "pushFail" => lastOp.alert # ""

\* C11: in every reachable state the messages list of every client holds at
\* most WindowSize entries, however many messages the collection holds.
C11_ListWithinWindow ==
  \A c \in Clients : Len(messages[c]) <= WindowSize

\* a client has just received a snapshot of a collection that holds more
\* messages than the window, and its list is full
C11_Witness ==
  \E c \in Clients :
    /\ lastOp = Op("snapshot", c)
    /\ Cardinality(store) > WindowSize
    /\ Len(messages[c]) = WindowSize


\* C12: the replyTo of a message handed to push(), pending or stored, never
\* quotes an empty text: a reply to an image-only message quotes a
\* placeholder that stands for the image.
C12_ReplyQuotesNonEmptyText ==
  /\ \A p \in pushes :
       p.payload.replyTo # Absent => p.payload.replyTo[1].text # <<>>
  /\ \A m \in store : m.replyTo # Absent => m.replyTo[1].text # <<>>

\* C13: every value listener a client has attached is cancelled when the
\* component that attached it is no longer rendered or the identity it was
\* attached for is no longer signed in: the role listener of App belongs to
\* the signed-in user, the listener of PersonalSettingsView and of GroupView
\* to the rendered view.
C13_ListenersCancelled ==
  \A c \in Clients : \A l \in listeners[c] :
    /\ l.owner = "App" => user[c] = l.path
    /\ l.owner = "PersonalSettingsView" =>
         (user[c] = l.path /\ ~loading[c] /\ currentView[c] = "personal")
    /\ l.owner = "GroupView" => GroupMounted(c)

\* the role the database holds for account u ("Member" when none is stored)
StoredRole(u) == IF u \in DOMAIN users THEN RoleOf(users[u]) ELSE "Member"

\* C14: once the value events of the role record of the signed-in identity
\* have been delivered, userRole is the role stored for that identity
\* ("Member" when none is stored), also after a sign-out followed by a
\* sign-in as another user.
C14_RoleOfCurrentIdentity ==
  \A c \in Clients :
    (user[c] # NoUser /\ session[c] = user[c] /\ user[c] \notin roleDirty[c])
      => userRole[c] = StoredRole(user[c])

\* the client the push with key k was issued from (nobody changes account
\* in the feed scenario)
SenderClient(k) == CHOOSE c \in Clients : AccountOf(c) = author[k]

IsStored(k) == \E m \in store : m.id = k

\* the sender's list holds exactly one entry with key k, and it is the
\* message as stored
ListedOnceBySender(k) ==
  /\ k \in 1..Len(author)
  /\ LET c == SenderClient(k)
         at == {i \in 1..Len(messages[c]) : messages[c][i].id = k}
     IN  /\ Cardinality(at) = 1
         /\ \A i \in at : messages[c][i].uid = author[k]
         /\ \A i \in at : \A m \in store : m.id = k => messages[c][i] = m

InWindow(k) == \E m \in FeedVal(store) : m.id = k

C16_RegisterAssignsMember ==
  lastOp.op = "registerSet" =>
    (NewUid \in DOMAIN users /\ users[NewUid].role = "Member")

\* the register call has run to its end in a browser whose previous user
\* was an Admin and whose userRole still says so
C16_Witness ==
  /\ lastOp.op = "registerSet"
  /\ user[lastOp.client] = NewUid
  /\ userRole[lastOp.client] = "Admin"
  /\ profile[NewUid].displayName # ""

\* C17: sendMsg and uploadImg, and the answer to their push, leave the
\* messages list as it is; the list of a client changes only when a feed
\* event sets it to the delivered snapshot or when ChatView is unmounted.
C17_ListOnlyFromSnapshots ==
  [][\A c \in Clients :
       /\ lastOp'.op \in {"sendMsg", "uploadImg", "pushAck", "pushFail"}
            => messages' = messages
       /\ messages'[c] # messages[c]
            => \/ /\ lastOp' = Op("snapshot", c)
                  /\ {messages'[c][i] : i \in 1..Len(messages'[c])}
                       = FeedVal(store)
               \/ /\ lastOp'.op \in {"navigate", "authStateChanged"}
                  /\ messages'[c] = <<>>]_vars

\* sendMsg has just pushed a message from a ChatView that lists other
\* messages, and the list does not hold the new one
C17_Witness ==
  \E c \in Clients : \E p \in pushes :
    /\ lastOp = Op("sendMsg", c)
    /\ p.client = c
    /\ p.key = nextKey - 1
    /\ messages[c] # <<>>
    /\ \A m \in Listed(c) : m.id # p.key

\* C18: the displayName, photoURL and role of a message are those of its
\* sender when sendMsg ran, and they stay as they are while the message is
\* pending and stored, whatever the sender's profile and role become.
C18_SenderSnapshotFrozen ==
  [][/\ \A c \in Clients : \A p \in pushes' \ pushes :
          lastOp' = Op("sendMsg", c) =>
            /\ p.payload.uid = user[c]
            /\ p.payload.displayName = profile[user[c]].displayName
            /\ p.payload.photoURL = profile[user[c]].photoURL
            /\ p.payload.role = userRole[c]
     /\ \A p \in pushes : \A n \in store' :
          n.id = p.key =>
            /\ n.displayName = p.payload.displayName
            /\ n.photoURL = p.payload.photoURL
            /\ n.role = p.payload.role
     /\ \A m \in store : \A n \in store' :
          n.id = m.id =>
            /\ n.displayName = m.displayName
            /\ n.photoURL = m.photoURL
            /\ n.role = m.role]_vars

\* a stored message whose sender has since saved another display name and
\* has been promoted
C18_Witness ==
  \E m \in store :
    /\ m.displayName # profile[m.uid].displayName
    /\ m.role = "Member"
    /\ users[m.uid].role = "Admin"

\* C19: one composed text produces at most one push: sendMsg called while a
\* push of the same compose text from the same ChatView is still pending
\* pushes nothing.
C19_NoDuplicateWhilePending ==
  [][\A c \in Clients :
       (/\ lastOp' = Op("sendMsg", c)
        /\ \E p \in pushes :
             p.client = c /\ p.resume /\ p.payload.text = text[c])
         => pushes' = pushes]_vars

\* the reply target as sendMsg would write it into a payload
AsReplyTo(r) ==
  IF r # <<>> THEN <<[text |-> r[1].text, sender |-> r[1].displayName]>>
  ELSE Absent

\* C20: when the push of sendMsg succeeds, only what was sent is discarded:
\* a compose text that differs from the text sent, and a reply target that
\* differs from the one sent, are still there afterwards.
C20_ClearOnlyWhatWasSent ==
  [][\A p \in pushes :
       (lastOp'.op = "pushAck" /\ p \notin pushes' /\ p.resume) =>
         /\ text[p.client] # p.payload.text
              => text'[p.client] = text[p.client]
         /\ AsReplyTo(reply[p.client]) # p.payload.replyTo
              => reply'[p.client] = reply[p.client]]_vars

\* C21: the reply of a rendered ChatView is changed only by the reply
\* button, by the X of the reply banner and by the confirmation of a send
\* (leaving the chat view drops the state with the component); a feed event
\* leaves it as it is, also when the target is no longer stored, and the
\* payload sendMsg then pushes quotes the target's text and sender name.
C21_ReplyFrame ==
  [][\A c \in Clients :
       /\ reply'[c] # reply[c]
            => \/ lastOp' = Op("composeReply", c)
               \/ lastOp' = Op("clearReply", c)
               \/ lastOp' = Op("pushAck", c) /\ reply'[c] = <<>>
               \/ lastOp' = Op("navigate", c) /\ reply'[c] = <<>>
       /\ lastOp' = Op("snapshot", c) => reply'[c] = reply[c]
       /\ (lastOp' = Op("sendMsg", c) /\ reply[c] # <<>>)
            => \A p \in pushes' \ pushes :
                 /\ p.payload.replyTo # Absent
                 /\ p.payload.replyTo[1].text = reply[c][1].text
                 /\ p.payload.replyTo[1].sender = reply[c][1].displayName]_vars

\* sendMsg has just pushed a reply whose target was removed, after the feed
\* event that followed the removal was delivered
C21_Witness ==
  \E c \in Clients : \E p \in pushes :
    /\ lastOp = Op("sendMsg", c)
    /\ p.client = c
    /\ p.key = nextKey - 1
    /\ p.payload.replyTo # Absent
    /\ reply[c] # <<>>
    /\ ~feedDirty[c]
    /\ \A m \in store : m.id # reply[c][1].id

\* C22: uploadImg leaves text and reply as they are, also when a reply
\* target is selected, and so does the answer to its push; the message it
\* pushes, and the message stored from it, has an empty text, an image and
\* no replyTo.
C22_AttachmentFrame ==
  [][/\ \A c \in Clients :
          lastOp' = Op("uploadImg", c) =>
            /\ text' = text
            /\ reply' = reply
            /\ \A p \in pushes' \ pushes :
                 /\ p.payload.text = <<>>
                 /\ p.payload.imageUrl # Absent
                 /\ p.payload.replyTo = Absent
     /\ \A p \in pushes :
          (p \notin pushes' /\ ~p.resume /\ p.payload.imageUrl # Absent) =>
            /\ text' = text
            /\ reply' = reply
            /\ \A m \in store' \ store :
                 m.text = <<>> /\ m.imageUrl # Absent /\ m.replyTo = Absent
    ]_vars

\* uploadImg has just pushed an image from a ChatView in which a text is
\* composed and a reply target is selected
C22_Witness ==
  \E c \in Clients : \E p \in pushes :
    /\ lastOp = Op("uploadImg", c)
    /\ p.client = c
    /\ p.key = nextKey - 1
    /\ p.payload.imageUrl # Absent
    /\ text[c] # <<>>
    /\ reply[c] # <<>>

\* the role field of users/{u} in the collection us ("": no record or no
\* role field)
RoleIn(us, u) == IF u \in DOMAIN us THEN us[u].role ELSE ""

\* C23, the gate: a step of the promote button is taken by a client whose
\* userRole is "Admin", on a user whose listed role is not "Admin", and the
\* role it writes is "Admin".
C23_PromoteGated ==
  [][lastOp'.op = "promote" =>
       /\ lastOp'.role = "Admin"
       /\ userRole[lastOp'.client] = "Admin"
       /\ \A u \in Accounts :
            RoleIn(users', u) # RoleIn(users, u) =>
              /\ RoleIn(users', u) = "Admin"
              /\ \E r \in groupUsers[lastOp'.client] :
                   r.uid = u /\ r.role # "Admin"]_vars

\* C23, the writers: the role field of a record changes only in a step of
\* the promote button or in the set() of a register call, which writes the
\* record of the account it created.
C23_OnlyPromoteAndRegisterWrite ==
  [][\A u \in Accounts :
       RoleIn(users', u) # RoleIn(users, u) =>
         \/ lastOp'.op = "promote"
         \/ lastOp'.op = "registerSet" /\ u = NewUid]_vars

\* C23: role writes are Admin-gated and only made by the promote button and
\* by the registration of a fresh uid, and a stored "Admin" role is never
\* lowered.
C23_RoleWritesMonotone ==
  [][/\ lastOp'.op = "promote" => userRole[lastOp'.client] = "Admin"
     /\ \A u \in Accounts :
          /\ RoleIn(users', u) # RoleIn(users, u) =>
               \/ lastOp'.op = "promote" /\ RoleIn(users', u) = "Admin"
               \/ lastOp'.op = "registerSet" /\ u = NewUid
          /\ RoleIn(users, u) = "Admin" => RoleIn(users', u) = "Admin"]_vars

====
